---- MODULE Spec2Model ----
(***************************************************************************)
(* Model of neuronbridge_common.py: the JACS-style UID generator           *)
(* (generate_jacs_uid) and the status-record helper                        *)
(* (update_library_status).                                                *)
(*                                                                         *)
(* Python optional integers are modelled as sequences: None is <<>> and    *)
(* the integer v is <<v>>.  The wall clock (milliseconds since the Unix    *)
(* epoch) does not fit a 32-bit integer, so a clock reading is the pair    *)
(* <<billions, rest>> standing for billions * 10^9 + rest.                 *)
(***************************************************************************)
EXTENDS Integers, Sequences, FiniteSets

VARIABLES
    now,                 \* the wall clock, in ms, as <<billions, rest>>
    pc,                  \* position of the current call of generate_jacs_uid
    deployment_context,  \* argument of the call
    last_uid,            \* argument of the call (None or <<v>>)
    current_index,       \* local: the retry index
    ip_component,        \* local: the host byte
    time_component,      \* local: the shifted time of the latest candidate
    next_uid,            \* local: the candidate (None or <<v>>)
    first_uid,           \* history: the candidate of the call's first attempt
    first_time,          \* history: time_component of the first attempt
    slept,               \* history: time.sleep(0.5) ran during the call
    remembered,          \* history: one earlier returned identifier, or None
    chain,               \* history: identifiers returned along a call chain
    kwargs,              \* update_library_status: the keyword arguments
    status_pc,           \* update_library_status: "ready" or "done"
    payload,             \* the document handed to coll.insert_one, or None
    insert_calls,        \* number of calls of coll.insert_one
    status_ret           \* the value update_library_status returned

gen_vars == <<now, pc, deployment_context, last_uid, current_index,
              ip_component, time_component, next_uid, first_uid, first_time,
              slept, remembered, chain>>
status_vars == <<kwargs, status_pc, payload, insert_calls, status_ret>>
vars == <<now, pc, deployment_context, last_uid, current_index,
          ip_component, time_component, next_uid, first_uid, first_time,
          slept, remembered, chain,
          kwargs, status_pc, payload, insert_calls, status_ret>>

---------------------------------------------------------------------------
(* Bounds of the model *)

\* clock readings 1..MaxTick ms past the epoch offset (and 100 ms past it)
MaxTick == 2
\* largest retry index encoded in a caller-provided last_uid
MaxLastIndex == 1
\* longest call chain followed
MaxChain == 3

Ticks == (1..MaxTick) \cup {100}
DeploymentContexts == {2, 17}
\* what socket.gethostbyname(hostname) can answer
HostAddresses == {<<10, 36, 13, 5>>}
\* what socket.gethostbyname('localhost') can answer
LoopbackAddresses == {<<127, 0, 0, 1>>}

---------------------------------------------------------------------------
(* Python values *)

None == <<>>
Some(v) == <<v>>
\* truth value of an optional integer: None and 0 are false
Truthy(x) == x # None /\ x[1] # 0
Falsy(x) == ~Truthy(x)

\* x << n
ShiftLeft(x, n) == x * (2 ^ n)

---------------------------------------------------------------------------
(* generate_jacs_uid *)

\* current_time_offset = 921700000000
current_time_offset == <<921, 700000000>>
max_tries == 1023

ClockValues == {<<current_time_offset[1], current_time_offset[2] + d>> : d \in Ticks}

\* int(time.time()*1000) - current_time_offset
MillisSinceOffset(clock) ==
    (clock[1] - current_time_offset[1]) * 1000000000
        + (clock[2] - current_time_offset[2])

\* a name resolution that raised
Raised == <<>>

\* the try/except around the two resolutions: the address used, or Raised
\* when the call in the except clause raises too
ResolveIpa(host, loopback) == IF host # Raised THEN host ELSE loopback

\* int(ipa.split('.')[-1]) & 0xFF
IpComponent(ipa) == ipa[Len(ipa)] % 256

CandidateIndexInTime(tc, index, context, ip) ==
    tc + ShiftLeft(index, 22) + ShiftLeft(context, 8) + ip
CandidateContextShift(tc, index, context, ip) ==
    tc + ShiftLeft(index, 12) + ShiftLeft(context, 4) + ip
CandidateNoIndex(tc, index, context, ip) ==
    tc + ShiftLeft(context, 8) + ip
CandidateNoHost(tc, index, context, ip) ==
    tc + ShiftLeft(index, 12) + ShiftLeft(context, 8)
\* time_component + (current_index << 12) + (deployment_context << 8) + ip_component
Candidate(tc, index, context, ip) ==
    tc + ShiftLeft(index, 12) + ShiftLeft(context, 8) + ip

CollidesNever(last, cand) == FALSE
\* last_uid and (last_uid == next_uid)
Collides(last, cand) == Truthy(last) /\ last = cand

NextIndexSkip(index) == index + 2
\* current_index += 1
NextIndex(index) == index + 1

LoopGuardNoCandidate(index, cand) == index <= max_tries
\* (current_index <= max_tries) and not next_uid
LoopGuard(index, cand) == index <= max_tries /\ Falsy(cand)

\* the values a caller can hand in as last_uid
LastUids(context) ==
    {None, Some(0)} \cup
    {Some(Candidate(ShiftLeft(d, 22), i, context, IpComponent(a))) :
        d \in Ticks, i \in 0..MaxLastIndex,
        a \in HostAddresses \cup LoopbackAddresses}

\* entry of generate_jacs_uid up to the while loop
Enter(context, last, host, loopback) ==
    LET ipa == ResolveIpa(host, loopback) IN
    /\ deployment_context' = context
    /\ last_uid' = last
    /\ current_index' = 0
    /\ next_uid' = None
    /\ time_component' = 0
    /\ first_uid' = None
    /\ first_time' = 0
    /\ slept' = FALSE
    /\ IF ipa = Raised
       THEN /\ pc' = "raised"
            /\ ip_component' = 0
       ELSE /\ pc' = "loop"
            /\ ip_component' = IpComponent(ipa)
    /\ UNCHANGED now

\* a call with arbitrary arguments, once the previous call is over
Call(context, last, host, loopback) ==
    /\ pc \in {"idle", "returned", "raised"}
    /\ Enter(context, last, host, loopback)
    /\ chain' = <<>>
    /\ UNCHANGED <<remembered, status_vars>>

\* one pass of the while body
LoopStep ==
    /\ pc = "loop"
    /\ LoopGuard(current_index, next_uid)
    /\ LET tc == ShiftLeft(MillisSinceOffset(now), 22)
           cand == Some(Candidate(tc, current_index, deployment_context,
                                  ip_component))
           collides == Collides(last_uid, cand)
           uid == IF collides THEN None ELSE cand
           index == IF collides THEN NextIndex(current_index)
                    ELSE current_index
           exhausted == Falsy(uid) /\ index > max_tries
       IN /\ time_component' = tc
          /\ next_uid' = uid
          /\ current_index' = IF exhausted THEN 0 ELSE index
          /\ slept' = (slept \/ exhausted)
          /\ now' \in IF exhausted THEN ClockValues ELSE {now}
          /\ first_uid' = IF first_uid = None THEN cand ELSE first_uid
          /\ first_time' = IF first_uid = None THEN tc ELSE first_time
    /\ UNCHANGED <<pc, deployment_context, last_uid, ip_component,
                   remembered, chain, status_vars>>

\* what a returned identifier is remembered by
Issued ==
    [uid |-> next_uid, time |-> time_component, index |-> current_index,
     context |-> deployment_context, ip |-> ip_component]

\* leaving the while loop: sys.exit(-1) or return next_uid
Leave ==
    /\ pc = "loop"
    /\ ~LoopGuard(current_index, next_uid)
    /\ pc' = IF Falsy(next_uid) THEN "fatal" ELSE "returned"
    /\ UNCHANGED <<now, deployment_context, last_uid, current_index,
                   ip_component, time_component, next_uid, first_uid,
                   first_time, slept, status_vars>>

Exit ==
    /\ Leave
    /\ remembered' \in {remembered, Some(Issued)}
    /\ UNCHANGED chain

\* the wall clock changes (it can be set backwards)
Tick ==
    /\ now' \in ClockValues \ {now}
    /\ UNCHANGED <<pc, deployment_context, last_uid, current_index,
                   ip_component, time_component, next_uid, first_uid,
                   first_time, slept, remembered, chain, status_vars>>

InitGen ==
    /\ now \in ClockValues
    /\ pc = "idle"
    /\ deployment_context = 2
    /\ last_uid = None
    /\ current_index = 0
    /\ ip_component = 0
    /\ time_component = 0
    /\ next_uid = None
    /\ first_uid = None
    /\ first_time = 0
    /\ slept = FALSE
    /\ remembered = None
    /\ chain = <<>>

StatusIdle ==
    /\ kwargs = <<>>
    /\ status_pc = "idle"
    /\ payload = None
    /\ insert_calls = 0
    /\ status_ret = FALSE

Init == InitGen /\ StatusIdle

Next ==
    \/ \E context \in DeploymentContexts :
         \E last \in LastUids(context) :
           \E host \in HostAddresses \cup {Raised} :
             \E loopback \in LoopbackAddresses \cup {Raised} :
               Call(context, last, host, loopback)
    \/ LoopStep
    \/ Exit
    \/ Tick

Spec == Init /\ [][Next]_vars

\* the call runs to its end: the loop and its exit are never suspended
FairSpec == Spec /\ WF_vars(LoopStep) /\ WF_vars(Exit)

---------------------------------------------------------------------------
(* A call chain: every call after the first passes the previous call's    *)
(* return value as last_uid, with the same deployment_context, and        *)
(* resolves the same host byte.                                           *)

CallFirst(context, host, loopback) ==
    /\ pc \in {"idle", "returned", "raised"}
    /\ Enter(context, None, host, loopback)
    /\ chain' = <<>>
    /\ UNCHANGED <<remembered, status_vars>>

CallChained(host, loopback) ==
    /\ pc = "returned"
    /\ Len(chain) < MaxChain
    /\ ResolveIpa(host, loopback) # Raised
    /\ IpComponent(ResolveIpa(host, loopback)) = ip_component
    /\ Enter(deployment_context, next_uid, host, loopback)
    /\ UNCHANGED <<remembered, chain, status_vars>>

ExitChain ==
    /\ Leave
    /\ chain' = Append(chain, Issued)
    /\ UNCHANGED remembered

\* the wall clock advances
TickForward ==
    /\ now' \in {c \in ClockValues : c[2] > now[2]}
    /\ UNCHANGED <<pc, deployment_context, last_uid, current_index,
                   ip_component, time_component, next_uid, first_uid,
                   first_time, slept, remembered, chain, status_vars>>

NextChain ==
    \/ \E context \in DeploymentContexts :
         \E host \in HostAddresses \cup {Raised} :
           \E loopback \in LoopbackAddresses \cup {Raised} :
             CallFirst(context, host, loopback)
    \/ \E host \in HostAddresses \cup {Raised} :
         \E loopback \in LoopbackAddresses \cup {Raised} :
           CallChained(host, loopback)
    \/ LoopStep
    \/ ExitChain
    \/ TickForward

ChainSpec == Init /\ [][NextChain]_vars

---------------------------------------------------------------------------
(* update_library_status *)

RequiredKeys == {"library", "manifold", "method", "source", "images", "samples"}
OptionalKeys == {"dataset", "neuprint", "neuronbridge", "release", "tag"}
AuditKeys == {"updateDate", "updatedBy"}

\* the value a caller passes for a key, and a second one where the code
\* tells values apart (the method, and the truth value of optional fields)
Value(k) ==
    CASE k = "images" -> 7
      [] k = "samples" -> 3
      [] k = "method" -> "MongoDB"
      [] OTHER -> "given"
OtherValue(k) ==
    CASE k = "method" -> "S3"
      [] k \in OptionalKeys -> ""
      [] OTHER -> Value(k)

\* truth value of an optional field's value (a string)
TruthyValue(v) == v # ""

KwargsInputs ==
    {[k \in S |-> IF k \in T THEN OtherValue(k) ELSE Value(k)] :
        <<S, T>> \in {st \in (SUBSET (RequiredKeys \cup OptionalKeys \cup AuditKeys))
                             \X (SUBSET ({"method"} \cup OptionalKeys)) :
                        st[2] \subseteq st[1]}}

Has(kw, k) == k \in DOMAIN kw
\* kwargs[k] = v
Put(kw, k, v) == [x \in DOMAIN kw \cup {k} |-> IF x = k THEN v ELSE kw[x]]

\* if "manifold" not in kwargs
DefaultManifold(kw) == IF Has(kw, "manifold") THEN kw ELSE Put(kw, "manifold", "prod")
\* if "method" not in kwargs
DefaultMethod(kw) ==
    IF Has(kw, "method") THEN kw
    ELSE Put(Put(kw, "method", "MongoDB"), "source", "neuronMetadata")
SourceRejectedAlways(kw) == ~Has(kw, "source")
\* "source" not in kwargs and the method is not MongoDB
SourceRejected(kw) == ~Has(kw, "source") /\ kw["method"] # "MongoDB"
\* if "source" not in kwargs, with the MongoDB method
DefaultSource(kw) == IF Has(kw, "source") THEN kw ELSE Put(kw, "source", "neuronMetadata")
\* for arg in ["images", "samples"]
DefaultCounts(kw) ==
    LET a == IF Has(kw, "images") THEN kw ELSE Put(kw, "images", 0)
    IN IF Has(a, "samples") THEN a ELSE Put(a, "samples", 0)

\* the payload built from the completed keyword arguments
Payload(kw) ==
    LET keys == RequiredKeys
                \cup {k \in OptionalKeys : Has(kw, k) /\ TruthyValue(kw[k])}
                \cup {k \in AuditKeys : Has(kw, k)}
                \cup {"updateDate"}
    IN [k \in keys |-> IF Has(kw, k) THEN kw[k] ELSE "datetime.now()"]

\* one call; inserted tells whether result.inserted_id is set
UpdateLibraryStatus(inserted) ==
    /\ status_pc = "ready"
    /\ status_pc' = "done"
    /\ IF ~Has(kwargs, "library")
       THEN /\ status_ret' = FALSE
            /\ UNCHANGED <<payload, insert_calls>>
       ELSE LET kw == DefaultMethod(DefaultManifold(kwargs)) IN
            IF SourceRejected(kw)
            THEN /\ status_ret' = FALSE
                 /\ UNCHANGED <<payload, insert_calls>>
            ELSE /\ payload' = Some(Payload(DefaultCounts(DefaultSource(kw))))
                 /\ insert_calls' = insert_calls + 1
                 /\ status_ret' = inserted
    /\ UNCHANGED <<kwargs, gen_vars>>

InitStatus ==
    /\ InitGen
    /\ MillisSinceOffset(now) = 1
    /\ kwargs \in KwargsInputs
    /\ status_pc = "ready"
    /\ payload = None
    /\ insert_calls = 0
    /\ status_ret = FALSE

NextStatus == \E inserted \in BOOLEAN : UpdateLibraryStatus(inserted)

StatusSpec == InitStatus /\ [][NextStatus]_vars

---------------------------------------------------------------------------
(* Properties *)

\* C1: the identifiers returned along a call chain (same deployment_context
\* and host byte, each call given the previous return value as last_uid)
\* are pairwise distinct.
ChainDistinct ==
    \A i, j \in 1..Len(chain) :
        (i < j /\ chain[i].context = chain[j].context
               /\ chain[i].ip = chain[j].ip)
            => chain[i].uid # chain[j].uid

\* C2: a call that returns never returns a value equal to last_uid.
ReturnDiffersFromLast == pc = "returned" => next_uid # last_uid

ReturnedAfterCollision ==
    /\ pc = "returned"
    /\ Truthy(last_uid)
    /\ first_uid = last_uid
    /\ current_index = 1

\* the call of the concrete scenario has returned: clock 921700000100,
\* deployment_context 2, host byte 5, no last_uid
ScenarioReturned ==
    /\ pc = "returned"
    /\ now = <<921, 700000100>>
    /\ time_component = ShiftLeft(MillisSinceOffset(now), 22)
    /\ deployment_context = 2
    /\ ip_component = 5
    /\ last_uid = None

\* C3 as stated: the scenario's call returns 419431429.
ScenarioReturnsSpecValue == ScenarioReturned => next_uid = Some(419431429)

\* C3 as amended: the scenario's call returns 419430917, which is
\* (100 << 22) + (0 << 12) + (2 << 8) + 5 with 100 << 22 = 419430400.
ScenarioReturnsPackedValue == ScenarioReturned => next_uid = Some(419430917)

\* C4: a call whose last_uid is the candidate of its first attempt returns
\* a different value with the retry index incremented at least once, and
\* exactly last_uid + (1 << 12) when both attempts read the same clock.
FirstAttemptCollisionRetries ==
    (pc = "returned" /\ last_uid = first_uid)
        => /\ next_uid # last_uid
           /\ current_index >= 1
           /\ time_component = first_time
                => next_uid = Some(last_uid[1] + ShiftLeft(1, 12))

RetriedInSameMillisecond ==
    /\ pc = "returned"
    /\ last_uid = first_uid
    /\ time_component = first_time

\* C5 as stated: the low 8 bits of a returned identifier are the host byte
\* and bits 8-11 are the supplied deployment_context, whatever its value.
FieldsDecodeToInputs ==
    pc = "returned"
        => /\ next_uid[1] % 256 = ip_component
           /\ (next_uid[1] \div 256) % 16 = deployment_context

\* C5 as amended: the low 8 bits of a returned identifier are the host byte
\* and bits 8-11 are the supplied deployment_context modulo 16.
FieldsDecodeModuloWidth ==
    pc = "returned"
        => /\ next_uid[1] % 256 = ip_component
           /\ (next_uid[1] \div 256) % 16 = deployment_context % 16

ReturnedWithWideContext ==
    /\ pc = "returned"
    /\ deployment_context > 15
    /\ current_index = 1

\* the remembered identifier was issued for the same deployment_context and
\* host byte as the one just returned
SameContextAndHost ==
    /\ pc = "returned"
    /\ remembered # None
    /\ remembered[1].context = deployment_context
    /\ remembered[1].ip = ip_component

\* C6: of two identifiers returned for the same deployment_context and host
\* byte from candidates computed at different milliseconds, the one of the
\* later millisecond is strictly greater.
LaterMillisecondGreater ==
    SameContextAndHost
        => /\ remembered[1].time < time_component
                => remembered[1].uid[1] < next_uid[1]
           /\ remembered[1].time > time_component
                => remembered[1].uid[1] > next_uid[1]

LaterWithLowerIndex ==
    /\ SameContextAndHost
    /\ remembered[1].time < time_component
    /\ remembered[1].index = 1
    /\ current_index = 0

\* C7: no resolution error propagates out of a call.
NoResolutionError == pc # "raised"

\* the caller passed the keyword argument k
Supplied(k) == k \in DOMAIN kwargs

\* C8 as stated: insert_one is invoked exactly when the caller supplied all
\* six required fields, and the call returns False without invoking it
\* otherwise.
InsertOnlyWithAllRequired ==
    status_pc = "done"
        => /\ (insert_calls > 0) <=> (\A k \in RequiredKeys : Supplied(k))
           /\ (\E k \in RequiredKeys : ~Supplied(k))
                => (status_ret = FALSE /\ insert_calls = 0)

\* the arguments the code rejects: no library, or no source together with
\* a supplied method other than "MongoDB"
Rejected ==
    \/ ~Supplied("library")
    \/ ~Supplied("source") /\ Supplied("method") /\ kwargs["method"] # "MongoDB"

\* C8 as amended: the call returns False without invoking insert_one when
\* library is missing, or when source is missing and a method other than
\* "MongoDB" was supplied; otherwise missing manifold, method, source,
\* images and samples are defaulted and insert_one is invoked once with a
\* payload carrying all six fields.
InsertUnlessRejected ==
    status_pc = "done"
        => /\ Rejected => (status_ret = FALSE /\ insert_calls = 0 /\ payload = None)
           /\ ~Rejected => /\ insert_calls = 1
                           /\ RequiredKeys \subseteq DOMAIN payload[1]

InsertedWithDefaultedSource ==
    /\ status_pc = "done"
    /\ insert_calls = 1
    /\ Supplied("method")
    /\ ~Supplied("source")
    /\ ~Supplied("manifold")

RetryIndexAtMostOne == current_index <= 1 /\ ~slept

RetriedAfterClockWentBack ==
    /\ pc = "returned"
    /\ current_index = 1
    /\ time_component < first_time

====
